---- MODULE Spec2Model ----
(***************************************************************************)
(* Model of src/cosmosdb/AuthenticationMethod.ts:                          *)
(* getPreferredAuthenticationMethod reads two settings through the merged  *)
(* (effective) view of the VS Code configuration, and migrates the         *)
(* deprecated boolean 'azureDatabases.useCosmosOAuth' to the enumerated    *)
(* setting by issuing configuration.update calls at the global target.     *)
(* The function is synchronous and does not await the Thenables returned   *)
(* by update, so the issued updates are pending until the host applies     *)
(* them, in issue order.                                                   *)
(***************************************************************************)
EXTENDS Naturals, Sequences, FiniteSets

VARIABLES settings, pendingUpdates, calls, initialSettings

vars == <<settings, pendingUpdates, calls, initialSettings>>

\* Number of invocations of getPreferredAuthenticationMethod explored.
MaxCalls == 2

----------------------------------------------------------------------------
\* Values

undefined == "undefined"
jsTrue == "true"
jsFalse == "false"

auto == "auto"
accountKey == "accountKey"
entraId == "entraId"
managedIdentity == "managedIdentity"

\* enum AuthenticationMethod
AuthenticationMethod == {auto, accountKey, entraId, managedIdentity}

\* A stored string that is not a member of the enum (settings.json is free text).
unrecognized == "unrecognized"

\* Setting keys
useCosmosOAuth == "azureDatabases.useCosmosOAuth"
cosmosDbAuthentication == "cosmosDbAuthentication"

Keys == {useCosmosOAuth, cosmosDbAuthentication}

\* Configuration targets: update(key, value, true) addresses the global (user)
\* settings, update(key, value, false) the workspace settings.
Global == "Global"
Workspace == "Workspace"

Targets == {Global, Workspace}

StoredValues(key) ==
    IF key = useCosmosOAuth
    THEN {undefined, jsFalse, jsTrue}
    ELSE AuthenticationMethod \cup {undefined, unrecognized}

\* JavaScript truthiness of a setting value, as tested by `if (deprecatedOauthSetting)`.
Truthy(v) == v \notin {undefined, jsFalse}

----------------------------------------------------------------------------
\* The host configuration object

\* configuration.get(key, defaultValue): the effective value, workspace over
\* global, and defaultValue when no scope defines the key.
get_NoDefault(cfg, key, defaultValue) ==
    IF cfg[Workspace][key] # undefined THEN cfg[Workspace][key]
    ELSE cfg[Global][key]

get(cfg, key, defaultValue) ==
    IF cfg[Workspace][key] # undefined THEN cfg[Workspace][key]
    ELSE IF cfg[Global][key] # undefined THEN cfg[Global][key]
    ELSE defaultValue

\* The effect of configuration.update(key, value, configurationTarget) once the
\* host applies it: configurationTarget = true writes the global settings.
update_Workspace(cfg, key, value, configurationTarget) ==
    [cfg EXCEPT ![Workspace][key] = value]

update(cfg, key, value, configurationTarget) ==
    IF configurationTarget
    THEN [cfg EXCEPT ![Global][key] = value]
    ELSE [cfg EXCEPT ![Workspace][key] = value]

\* One issued configuration.update call.
Update(key, value, configurationTarget) ==
    [key |-> key, value |-> value, configurationTarget |-> configurationTarget]

----------------------------------------------------------------------------
\* getPreferredAuthenticationMethod, as a function of the configuration it
\* reads: the returned value and the update calls it issues, in order.

\* Variant: the deprecated setting is cleared outside the `if`.
getPreferredAuthenticationMethod_ClearAlways(cfg) ==
    LET deprecatedOauthSetting == get(cfg, useCosmosOAuth, undefined)
        preferredAuthMethod == get(cfg, cosmosDbAuthentication, auto)
    IN  IF Truthy(deprecatedOauthSetting) /\ preferredAuthMethod = auto
        THEN [ret |-> entraId,
              updates |-> <<Update(cosmosDbAuthentication, entraId, TRUE),
                            Update(useCosmosOAuth, undefined, TRUE)>>]
        ELSE [ret |-> preferredAuthMethod,
              updates |-> <<Update(useCosmosOAuth, undefined, TRUE)>>]

\* Variant: the new setting is written whenever the deprecated one is set.
getPreferredAuthenticationMethod_WriteAlways(cfg) ==
    LET deprecatedOauthSetting == get(cfg, useCosmosOAuth, undefined)
        preferredAuthMethod == get(cfg, cosmosDbAuthentication, auto)
        migrated == IF preferredAuthMethod = auto THEN entraId ELSE preferredAuthMethod
    IN  IF Truthy(deprecatedOauthSetting)
        THEN [ret |-> migrated,
              updates |-> <<Update(cosmosDbAuthentication, migrated, TRUE),
                            Update(useCosmosOAuth, undefined, TRUE)>>]
        ELSE [ret |-> preferredAuthMethod, updates |-> <<>>]

\* Variant: the deprecated setting is cleared before the new one is written.
getPreferredAuthenticationMethod_ClearFirst(cfg) ==
    LET deprecatedOauthSetting == get(cfg, useCosmosOAuth, undefined)
        preferredAuthMethod == get(cfg, cosmosDbAuthentication, auto)
    IN  IF Truthy(deprecatedOauthSetting)
        THEN IF preferredAuthMethod = auto
             THEN [ret |-> entraId,
                   updates |-> <<Update(useCosmosOAuth, undefined, TRUE),
                                 Update(cosmosDbAuthentication, entraId, TRUE)>>]
             ELSE [ret |-> preferredAuthMethod,
                   updates |-> <<Update(useCosmosOAuth, undefined, TRUE)>>]
        ELSE [ret |-> preferredAuthMethod, updates |-> <<>>]

\* Variant: an unrecognized stored value falls back to auto.
getPreferredAuthenticationMethod_Fallback(cfg) ==
    LET deprecatedOauthSetting == get(cfg, useCosmosOAuth, undefined)
        stored == get(cfg, cosmosDbAuthentication, auto)
        preferredAuthMethod == IF stored \in AuthenticationMethod THEN stored ELSE auto
    IN  IF Truthy(deprecatedOauthSetting)
        THEN IF preferredAuthMethod = auto
             THEN [ret |-> entraId,
                   updates |-> <<Update(cosmosDbAuthentication, entraId, TRUE),
                                 Update(useCosmosOAuth, undefined, TRUE)>>]
             ELSE [ret |-> preferredAuthMethod,
                   updates |-> <<Update(useCosmosOAuth, undefined, TRUE)>>]
        ELSE [ret |-> preferredAuthMethod, updates |-> <<>>]

\* Variant: the upgrade of auto does not look at the deprecated setting.
getPreferredAuthenticationMethod_UpgradeAlways(cfg) ==
    LET deprecatedOauthSetting == get(cfg, useCosmosOAuth, undefined)
        stored == get(cfg, cosmosDbAuthentication, auto)
        preferredAuthMethod == IF stored = auto THEN entraId ELSE stored
    IN  IF Truthy(deprecatedOauthSetting)
        THEN IF stored = auto
             THEN [ret |-> preferredAuthMethod,
                   updates |-> <<Update(cosmosDbAuthentication, entraId, TRUE),
                                 Update(useCosmosOAuth, undefined, TRUE)>>]
             ELSE [ret |-> preferredAuthMethod,
                   updates |-> <<Update(useCosmosOAuth, undefined, TRUE)>>]
        ELSE [ret |-> preferredAuthMethod, updates |-> <<>>]

getPreferredAuthenticationMethod(cfg) ==
    LET deprecatedOauthSetting == get(cfg, useCosmosOAuth, undefined)
        preferredAuthMethod == get(cfg, cosmosDbAuthentication, auto)
    IN  IF Truthy(deprecatedOauthSetting)
        THEN IF preferredAuthMethod = auto
             THEN [ret |-> entraId,
                   updates |-> <<Update(cosmosDbAuthentication, entraId, TRUE),
                                 Update(useCosmosOAuth, undefined, TRUE)>>]
             ELSE [ret |-> preferredAuthMethod,
                   updates |-> <<Update(useCosmosOAuth, undefined, TRUE)>>]
        ELSE [ret |-> preferredAuthMethod, updates |-> <<>>]

----------------------------------------------------------------------------
\* State machine

\* Tag the updates issued by invocation c, to tell whose updates are pending.
IssuedBy(c, updates) ==
    [i \in 1..Len(updates) |-> [by |-> c, update |-> updates[i]]]

\* The invocations that still have an update pending.
PendingCallers == {pendingUpdates[i].by : i \in 1..Len(pendingUpdates)}

\* Any contents of the user's global and workspace settings files.
Init ==
    /\ settings \in [Targets -> [Keys -> StoredValues(useCosmosOAuth) \cup StoredValues(cosmosDbAuthentication)]]
    /\ \A t \in Targets : \A k \in Keys : settings[t][k] \in StoredValues(k)
    /\ initialSettings = settings
    /\ pendingUpdates = <<>>
    /\ calls = <<>>

\* One invocation of getPreferredAuthenticationMethod: it reads the current
\* configuration, issues its updates without awaiting them, and returns.
Call ==
    /\ Len(calls) < MaxCalls
    /\ LET c == Len(calls) + 1
           r == getPreferredAuthenticationMethod(settings)
       IN  /\ calls' = Append(calls, [read |-> settings,
                                      overlaps |-> PendingCallers,
                                      ret |-> r.ret,
                                      updates |-> r.updates])
           /\ pendingUpdates' = pendingUpdates \o IssuedBy(c, r.updates)
    /\ UNCHANGED <<settings, initialSettings>>

\* The host applies the oldest pending update.
ApplyUpdate ==
    /\ pendingUpdates # <<>>
    /\ LET u == Head(pendingUpdates).update
       IN  settings' = update(settings, u.key, u.value, u.configurationTarget)
    /\ pendingUpdates' = Tail(pendingUpdates)
    /\ UNCHANGED <<calls, initialSettings>>

Next == Call \/ ApplyUpdate

Spec == Init /\ [][Next]_vars

----------------------------------------------------------------------------
\* Vocabulary of the properties

Invocations == 1..Len(calls)

\* The value a settings file holds for key, workspace over global, before any
\* default is applied (undefined when neither scope defines it).
StoredValue(cfg, key) ==
    IF cfg[Workspace][key] # undefined THEN cfg[Workspace][key] ELSE cfg[Global][key]

FlagReadsTrue(cfg) == StoredValue(cfg, useCosmosOAuth) = jsTrue

FlagReadsOff(cfg) == StoredValue(cfg, useCosmosOAuth) \in {undefined, jsFalse}

\* The enumerated setting as a reader sees it: the stored value, or auto.
EnumReads(cfg) ==
    IF StoredValue(cfg, cosmosDbAuthentication) = undefined
    THEN auto
    ELSE StoredValue(cfg, cosmosDbAuthentication)

WritesKey(updates, key) == \E i \in 1..Len(updates) : updates[i].key = key

\* Invocation c has an update of key that the host has not applied yet.
HasPending(c, key) ==
    \E i \in 1..Len(pendingUpdates) :
        pendingUpdates[i].by = c /\ pendingUpdates[i].update.key = key

\* All updates of invocation c have been applied.
Applied(c) == c \notin PendingCallers

\* Invocation c took the upgrade branch (line 31-35).
Upgraded(c) == WritesKey(calls[c].updates, cosmosDbAuthentication)

RECURSIVE ApplyAll(_, _)
ApplyAll(cfg, updates) ==
    IF updates = <<>> THEN cfg
    ELSE ApplyAll(update(cfg, Head(updates).key, Head(updates).value,
                         Head(updates).configurationTarget),
                  Tail(updates))

----------------------------------------------------------------------------
\* C1: when the deprecated flag reads absent or false, a call returns exactly
\* the stored enumerated value (auto when absent) and issues no update; the
\* settings are unchanged by it.
C1_NoFlagNoWrites ==
    /\ \A c \in Invocations :
          FlagReadsOff(calls[c].read) =>
              /\ calls[c].ret = EnumReads(calls[c].read)
              /\ calls[c].updates = <<>>
    /\ (calls # <<>> /\ FlagReadsOff(initialSettings)) =>
          /\ settings = initialSettings
          /\ pendingUpdates = <<>>

C1_Witness ==
    /\ Len(calls) = MaxCalls
    /\ FlagReadsOff(initialSettings)
    /\ initialSettings[Global][useCosmosOAuth] = jsTrue
    /\ calls[1].ret = managedIdentity

C3_ExplicitChoiceWins ==
    \A c \in Invocations :
        (/\ FlagReadsTrue(calls[c].read)
         /\ StoredValue(calls[c].read, cosmosDbAuthentication)
                \in {accountKey, entraId, managedIdentity}) =>
            /\ calls[c].ret = StoredValue(calls[c].read, cosmosDbAuthentication)
            /\ ~WritesKey(calls[c].updates, cosmosDbAuthentication)
            /\ calls[c].updates = <<Update(useCosmosOAuth, undefined, TRUE)>>

C3_Witness ==
    /\ Len(calls) >= 1
    /\ FlagReadsTrue(calls[1].read)
    /\ StoredValue(calls[1].read, cosmosDbAuthentication) = accountKey
    /\ calls[1].ret = accountKey
    /\ Applied(1)
    /\ settings[Global][cosmosDbAuthentication] = initialSettings[Global][cosmosDbAuthentication]

\* C4 (as stated): a second call made after the first call's updates were
\* applied returns what the first returned and issues no update.
C4_SecondCallIdle ==
    (Len(calls) >= 2 /\ calls[2].overlaps = {}) =>
        /\ calls[2].ret = calls[1].ret
        /\ calls[2].updates = <<>>

\* C5 (as stated): once a call has run and its updates were applied, the
\* deprecated key reads absent or false.
C5_FlagStaysCleared ==
    (calls # <<>> /\ pendingUpdates = <<>>) => FlagReadsOff(settings)

\* C6 (as stated): every call returns one of the four members, and after it the
\* enumerated key reads one of the four members.
C6_AlwaysMember ==
    \A c \in Invocations :
        /\ calls[c].ret \in AuthenticationMethod
        /\ Applied(c) => EnumReads(settings) \in AuthenticationMethod

\* C6 (amended): when the stored enumerated value is absent or one of the four
\* members, the call returns a member, which is the stored choice (auto when
\* absent) or entraId by upgrade from a set deprecated flag; and once its
\* updates are applied the enumerated key reads a member that is the original
\* choice or entraId.
C6_MemberWhenStoredValid ==
    \A c \in Invocations :
        EnumReads(calls[c].read) \in AuthenticationMethod =>
            /\ calls[c].ret \in AuthenticationMethod
            /\ \/ calls[c].ret = EnumReads(calls[c].read)
               \/ /\ calls[c].ret = entraId
                  /\ FlagReadsTrue(calls[c].read)
                  /\ EnumReads(calls[c].read) = auto
            /\ Applied(c) =>
                  /\ EnumReads(settings) \in AuthenticationMethod
                  /\ EnumReads(settings) \in {EnumReads(calls[c].read), entraId}

C6_Witness ==
    /\ Len(calls) >= 1
    /\ Applied(1)
    /\ FlagReadsTrue(calls[1].read)
    /\ calls[1].read[Global][cosmosDbAuthentication] = auto
    /\ calls[1].read[Workspace][cosmosDbAuthentication] = undefined
    /\ calls[1].ret = entraId
    /\ EnumReads(settings) = entraId

\* C7: invocations that overlap the first one (they read while some update of
\* the first is still pending) return what a single invocation returns from
\* the initial settings, and when all updates are applied the settings are
\* those a single invocation leaves.
SingleInvocation == getPreferredAuthenticationMethod(initialSettings)

C7_OverlapConverges ==
    /\ (calls # <<>> /\ pendingUpdates = <<>>) =>
          settings = ApplyAll(initialSettings, SingleInvocation.updates)
    /\ \A c \in Invocations :
          (c = 1 \/ 1 \in calls[c].overlaps) => calls[c].ret = SingleInvocation.ret

C7_Witness ==
    /\ Len(calls) >= 2
    /\ 1 \in calls[2].overlaps
    /\ Len(calls[1].updates) = 2
    /\ calls[2].read # initialSettings
    /\ FlagReadsTrue(calls[2].read)
    /\ calls[2].updates # <<>>
    /\ pendingUpdates = <<>>

\* C8: every update issued targets the global settings, and the workspace
\* values of both keys never change.
C8_GlobalScopeOnly ==
    /\ \A c \in Invocations : \A i \in 1..Len(calls[c].updates) :
          calls[c].updates[i].configurationTarget = TRUE
    /\ settings[Workspace] = initialSettings[Workspace]

C8_Witness ==
    /\ Len(calls) >= 1
    /\ Len(calls[1].updates) = 2
    /\ Applied(1)
    /\ initialSettings[Workspace][useCosmosOAuth] = jsTrue
    /\ initialSettings[Workspace][cosmosDbAuthentication] = auto
    /\ settings[Global] # initialSettings[Global]

\* C9: a stored enumerated value outside the four members is returned verbatim,
\* with no update of the enumerated key, whether or not the deprecated flag is
\* set (the flag clear is still issued when it is).
C9_UnrecognizedPassesThrough ==
    \A c \in Invocations :
        StoredValue(calls[c].read, cosmosDbAuthentication) = unrecognized =>
            /\ calls[c].ret = unrecognized
            /\ ~WritesKey(calls[c].updates, cosmosDbAuthentication)
            /\ Applied(c) => StoredValue(settings, cosmosDbAuthentication) = unrecognized

C9_Witness ==
    /\ Len(calls) = MaxCalls
    /\ StoredValue(calls[1].read, cosmosDbAuthentication) = unrecognized
    /\ FlagReadsTrue(calls[1].read)
    /\ calls[1].ret = unrecognized
    /\ StoredValue(calls[MaxCalls].read, cosmosDbAuthentication) = unrecognized
    /\ FlagReadsOff(calls[MaxCalls].read)
    /\ calls[MaxCalls].ret = unrecognized

\* C10: an upgrading call issues the update of the enumerated key before the
\* clear of the deprecated flag, so with updates applied in issue order there
\* is no state in which its clear is applied while its enumerated update is
\* not: whenever the clear is applied, the global enumerated key is entraId.
C10_EnumWrittenBeforeClear ==
    \A c \in Invocations :
        Upgraded(c) =>
            /\ calls[c].updates[1].key = cosmosDbAuthentication
            /\ calls[c].updates[Len(calls[c].updates)].key = useCosmosOAuth
            /\ ~HasPending(c, useCosmosOAuth) =>
                  /\ ~HasPending(c, cosmosDbAuthentication)
                  /\ settings[Global][cosmosDbAuthentication] = entraId

C10_Witness ==
    /\ Len(calls) = 1
    /\ Upgraded(1)
    /\ HasPending(1, useCosmosOAuth)
    /\ ~HasPending(1, cosmosDbAuthentication)
    /\ settings[Global][useCosmosOAuth] = jsTrue
    /\ settings[Global][cosmosDbAuthentication] = entraId

====
